---- MODULE Spec2Model ----
(***************************************************************************)
(* A model of send_bulk.py: the lead reader (read_leads_csv), the          *)
(* placeholder renderer (render) and the dispatch loop (send_all).         *)
(*                                                                         *)
(* A Python str is a sequence of one-character strings; a Python dict is a *)
(* sequence of <<key, value>> pairs in insertion order; None is the        *)
(* one-element sequence <<"<None>">>, which no str equals.                 *)
(***************************************************************************)
EXTENDS Integers, Sequences, FiniteSets, TLC

VARIABLES
    cfg,            \* Config record (dry_run, use_starttls, rate_limit_seconds, max_emails)
    csv,            \* the lead file: a sequence of rows, each a sequence of cells
    subject_tmpl,   \* send_all: subject template
    body_tmpl,      \* send_all: body template
    leads,          \* send_all: the lead list (read, then capped)
    loaded,         \* history: the list read_leads_csv returned, before the cap
    printed_loaded, \* the number printed in "Loaded N lead(s)." (-1: not printed)
    sent,           \* send_all: sent counter
    failed,         \* send_all: failed counter
    server,         \* send_all: "None" or "SMTP"
    i,              \* send_all: enumerate index of the current lead (0 before the loop)
    lead,           \* the lead of the current iteration / the lead given to render
    subject,        \* rendered subject of the current lead
    body,           \* rendered body of the current lead
    pc,             \* position in the running function
    exc,            \* the exception propagating out, or "none"
    ret,            \* send_all's return value (-1: has not returned)
    log,            \* external operations performed, in order: [op, i, ok]
    report,         \* the per-lead progress words printed, in order
    attempted,      \* the leads the loop has started on, in order
    template,       \* render: its template argument
    out             \* render: its result

vars == <<cfg, csv, subject_tmpl, body_tmpl, leads, loaded, printed_loaded, sent, failed,
          server, i, lead, subject, body, pc, exc, ret, log, report, attempted,
          template, out>>

(***************************************************************************)
(* Bounds.                                                                 *)
(***************************************************************************)
MaxPieces == 2      \* pieces a template given to render is made of
MaxRows == 2        \* data rows of a lead file given to read_leads_csv alone
MaxLeads == 3       \* data rows of the lead file of a send_all run
MaxCap == 2         \* largest MAX_EMAILS of a send_all run

(***************************************************************************)
(* Strings.                                                                *)
(***************************************************************************)
None == <<"<None>">>

k_company == <<"c","o","m","p","a","n","y">>
k_name == <<"n","a","m","e">>
k_email == <<"e","m","a","i","l">>

PLACEHOLDERS == <<k_company, k_name, k_email>>

UPPERCASE == <<"A","B","C","D","E","F","G","H","I","J","K","L","M",
               "N","O","P","Q","R","S","T","U","V","W","X","Y","Z">>
LOWERCASE == <<"a","b","c","d","e","f","g","h","i","j","k","l","m",
               "n","o","p","q","r","s","t","u","v","w","x","y","z">>

\* str.lower(), one character
lower_char(c) ==
    IF \E j \in 1..Len(UPPERCASE) : UPPERCASE[j] = c
    THEN LOWERCASE[CHOOSE j \in 1..Len(UPPERCASE) : UPPERCASE[j] = c]
    ELSE c

\* str.lower()
lower(s) == [j \in 1..Len(s) |-> lower_char(s[j])]

is_space(c) == c \in {" ", "\t"}

RECURSIVE lstrip(_)
lstrip(s) == IF s # <<>> /\ is_space(Head(s)) THEN lstrip(Tail(s)) ELSE s

RECURSIVE rstrip(_)
rstrip(s) ==
    IF s # <<>> /\ is_space(s[Len(s)]) THEN rstrip(SubSeq(s, 1, Len(s) - 1)) ELSE s

\* str.strip()
strip(s) == rstrip(lstrip(s))

\* str.replace(old, new) for a non-empty old: left to right, non-overlapping
RECURSIVE replace(_, _, _)
replace(s, old, new) ==
    IF Len(s) < Len(old) THEN s
    ELSE IF SubSeq(s, 1, Len(old)) = old
         THEN new \o replace(SubSeq(s, Len(old) + 1, Len(s)), old, new)
         ELSE <<Head(s)>> \o replace(Tail(s), old, new)

(***************************************************************************)
(* Dicts.                                                                  *)
(***************************************************************************)
dict_has(d, k) == \E j \in 1..Len(d) : d[j][1] = k

\* d.get(k, default)
dict_get(d, k, default) ==
    IF dict_has(d, k) THEN d[CHOOSE j \in 1..Len(d) : d[j][1] = k][2] ELSE default

\* d[k] = v: an existing key keeps its place, a new key goes last
dict_set(d, k, v) ==
    IF dict_has(d, k)
    THEN [j \in 1..Len(d) |-> IF d[j][1] = k THEN <<k, v>> ELSE d[j]]
    ELSE Append(d, <<k, v>>)

(***************************************************************************)
(* render                                                                  *)
(***************************************************************************)
token(k) == <<"{", "{">> \o k \o <<"}", "}">>

\* the for loop of render, from the n-th placeholder on
RECURSIVE render_from(_, _, _)
render_from(o, n, ld) ==
    IF n > Len(PLACEHOLDERS) THEN o
    ELSE render_from(replace(o, token(PLACEHOLDERS[n]),
                             dict_get(ld, PLACEHOLDERS[n], <<>>)),
                     n + 1, ld)

render(tmpl, ld) == render_from(tmpl, 1, ld)

(***************************************************************************)
(* read_leads_csv                                                          *)
(***************************************************************************)
\* dict(zip(fieldnames, row)), from the j-th pair on
RECURSIVE dict_zip(_, _, _, _)
dict_zip(d, fieldnames, row, j) ==
    IF j > Len(fieldnames) \/ j > Len(row) THEN d
    ELSE dict_zip(dict_set(d, fieldnames[j], row[j]), fieldnames, row, j + 1)

\* the restval loop of csv.DictReader: the fields a short row lacks are None
RECURSIVE dict_rest(_, _, _)
dict_rest(d, fieldnames, j) ==
    IF j > Len(fieldnames) THEN d
    ELSE dict_rest(dict_set(d, fieldnames[j], None), fieldnames, j + 1)

\* the dict csv.DictReader yields for one non-blank row: the cells a long row
\* has beyond the header go, as a list, under the key None (restkey)
reader_row(fieldnames, row) ==
    LET d == dict_zip(<<>>, fieldnames, row, 1)
    IN  IF Len(fieldnames) < Len(row)
        THEN dict_set(d, None, SubSeq(row, Len(fieldnames) + 1, Len(row)))
        ELSE dict_rest(d, fieldnames, Len(row) + 1)

\* (v or "").strip()
norm_value(v) == IF v = None \/ v = <<>> THEN <<>> ELSE strip(v)

\* k.strip().lower()
norm_key(k) == lower(strip(k))

\* {k.strip().lower(): (v or "").strip() for k, v in row.items()}, from the
\* j-th item on; k.strip() on the key None raises AttributeError
RECURSIVE norm_from(_, _, _)
norm_from(acc, d, j) ==
    IF j > Len(d) THEN [raised |-> FALSE, norm |-> acc]
    ELSE IF d[j][1] = None THEN [raised |-> TRUE, norm |-> <<>>]
    ELSE norm_from(dict_set(acc, norm_key(d[j][1]), norm_value(d[j][2])), d, j + 1)

norm_row(d) == norm_from(<<>>, d, 1)

required == {k_company, k_name, k_email}

\* reader.fieldnames: the first row of the file, None for an empty file
reader_fieldnames(file) == IF file = <<>> THEN None ELSE file[1]

headers_ok(file) ==
    /\ reader_fieldnames(file) # None
    /\ reader_fieldnames(file) # <<>>
    /\ required \subseteq
          {norm_key(reader_fieldnames(file)[j]) : j \in 1..Len(reader_fieldnames(file))}

\* the for loop of read_leads_csv, from the j-th row of the file on;
\* csv.DictReader skips the blank rows
RECURSIVE read_rows(_, _, _)
read_rows(acc, file, j) ==
    IF j > Len(file) THEN [exc |-> "none", leads |-> acc]
    ELSE IF file[j] = <<>> THEN read_rows(acc, file, j + 1)
    ELSE LET n == norm_row(reader_row(file[1], file[j]))
         IN  IF n.raised THEN [exc |-> "AttributeError", leads |-> <<>>]
             ELSE IF dict_get(n.norm, k_email, <<>>) = <<>>
                  THEN read_rows(acc, file, j + 1)
                  ELSE read_rows(Append(acc, n.norm), file, j + 1)

read_leads_csv(file) ==
    IF ~headers_ok(file) THEN [exc |-> "ValueError", leads |-> <<>>]
    ELSE read_rows(<<>>, file, 2)

(***************************************************************************)
(* send_all                                                                *)
(***************************************************************************)
Ev(op, k, ok) == [op |-> op, i |-> k, ok |-> ok]

\* a cap that lets one lead too many through: leads[: cfg.max_emails + 1]
cap_one_more(lds, max_emails) ==
    IF max_emails > 0
    THEN SubSeq(lds, 1, IF max_emails + 1 < Len(lds) THEN max_emails + 1 ELSE Len(lds))
    ELSE lds

\* leads[: cfg.max_emails] when cfg.max_emails > 0
cap(lds, max_emails) ==
    IF max_emails > 0
    THEN SubSeq(lds, 1, IF max_emails < Len(lds) THEN max_emails ELSE Len(lds))
    ELSE lds

\* a run that contacts the relay whatever dry_run says
first_pc_connect(c) == "connect"

\* where the try block starts: the relay is contacted only when not dry_run
first_pc(c) == IF c.dry_run THEN "loop" ELSE "connect"

\* a delay that does not look at the position of the lead
should_sleep_each(rate, k, n) == rate > 0

\* cfg.rate_limit_seconds > 0 and i < len(leads)
should_sleep(rate, k, n) == rate > 0 /\ k < n

\* a status that forgets the failures
status_zero(f) == 0

\* return 0 if failed == 0 else 2
status(f) == IF f = 0 THEN 0 ELSE 2

\* the log after the current lead's outcome: time.sleep between two leads
after_lead(lg) ==
    IF should_sleep(cfg.rate_limit_seconds, i, Len(leads))
    THEN Append(lg, Ev("sleep", i, TRUE))
    ELSE lg

\* cfg = load_config(); read_template(...); leads = read_leads_csv(csv_path)
LoadInputs ==
    /\ pc = "start"
    /\ LET r == read_leads_csv(csv)
       IN  IF r.exc # "none"
           THEN /\ exc' = r.exc
                /\ pc' = "raised"
                /\ UNCHANGED <<leads, loaded>>
           ELSE /\ leads' = r.leads
                /\ loaded' = r.leads
                /\ pc' = "cap"
                /\ UNCHANGED exc
    /\ UNCHANGED <<cfg, csv, subject_tmpl, body_tmpl, printed_loaded, sent, failed,
                   server, i, lead, subject, body, ret, log, report, attempted,
                   template, out>>

\* the cap, the "Loaded ..." line, the counters and server = None
CapAndPrint ==
    /\ pc = "cap"
    /\ leads' = cap(leads, cfg.max_emails)
    /\ printed_loaded' = Len(leads')
    /\ sent' = 0
    /\ failed' = 0
    /\ server' = "None"
    /\ pc' = first_pc(cfg)
    /\ UNCHANGED <<cfg, csv, subject_tmpl, body_tmpl, loaded, i, lead, subject, body, exc,
                   ret, log, report, attempted, template, out>>

\* one step of the connection set-up after the connection is open: an error
\* leaves the try block for the finally clause
Handshake(op, here, next) ==
    /\ pc = here
    /\ \E ok \in BOOLEAN :
          /\ log' = Append(log, Ev(op, 0, ok))
          /\ IF ok THEN pc' = next /\ UNCHANGED exc
                   ELSE pc' = "finally" /\ exc' = "SMTPException"
    /\ UNCHANGED <<cfg, csv, subject_tmpl, body_tmpl, loaded, leads, printed_loaded, sent,
                   failed, server, i, lead, subject, body, ret, report, attempted,
                   template, out>>

\* server = smtplib.SMTP(host, port, timeout=30): server stays None on an error
Connect ==
    /\ pc = "connect"
    /\ \E ok \in BOOLEAN :
          /\ log' = Append(log, Ev("connect", 0, ok))
          /\ IF ok THEN server' = "SMTP" /\ pc' = "ehlo" /\ UNCHANGED exc
                   ELSE pc' = "finally" /\ exc' = "OSError" /\ UNCHANGED server
    /\ UNCHANGED <<cfg, csv, subject_tmpl, body_tmpl, loaded, leads, printed_loaded, sent,
                   failed, i, lead, subject, body, ret, report, attempted,
                   template, out>>

Ehlo == Handshake("ehlo", "ehlo", IF cfg.use_starttls THEN "starttls" ELSE "login")

StartTls == Handshake("starttls", "starttls", "ehlo2")

Ehlo2 == Handshake("ehlo", "ehlo2", "login")

\* a login whose error is passed over
LoginErrorIgnored ==
    /\ pc = "login"
    /\ \E ok \in BOOLEAN : log' = Append(log, Ev("login", 0, ok))
    /\ pc' = "loop"
    /\ UNCHANGED <<cfg, csv, subject_tmpl, body_tmpl, loaded, leads, printed_loaded, sent,
                   failed, server, i, lead, subject, body, exc, ret, report, attempted,
                   template, out>>

Login == Handshake("login", "login", "loop")

\* for i, lead in enumerate(leads, start=1): to_addr, the two renders, the
\* progress prefix; the try block ends when the list is exhausted
LoopHead ==
    /\ pc = "loop"
    /\ IF i < Len(leads)
       THEN /\ i' = i + 1
            /\ lead' = leads[i + 1]
            /\ subject' = render(subject_tmpl, leads[i + 1])
            /\ body' = render(body_tmpl, leads[i + 1])
            /\ attempted' = Append(attempted, leads[i + 1])
            /\ pc' = "build"
       ELSE /\ pc' = "finally"
            /\ UNCHANGED <<i, lead, subject, body, attempted>>
    /\ UNCHANGED <<cfg, csv, subject_tmpl, body_tmpl, loaded, leads, printed_loaded, sent,
                   failed, server, exc, ret, log, report, template, out>>

\* build_message outside the inner try: its error leaves the loop
BuildUncaught ==
    /\ pc = "build"
    /\ \E ok \in BOOLEAN :
          LET lg == Append(log, Ev("build", i, ok))
          IN  IF ~ok
              THEN /\ exc' = "ValueError"
                   /\ log' = lg
                   /\ pc' = "finally"
                   /\ UNCHANGED <<sent, failed, report>>
              ELSE IF cfg.dry_run
              THEN /\ sent' = sent + 1
                   /\ report' = Append(report, "DRY_RUN")
                   /\ log' = after_lead(lg)
                   /\ pc' = "loop"
                   /\ UNCHANGED <<failed, exc>>
              ELSE /\ log' = lg
                   /\ pc' = "send"
                   /\ UNCHANGED <<sent, failed, report, exc>>
    /\ UNCHANGED <<cfg, csv, subject_tmpl, body_tmpl, loaded, leads, printed_loaded, server,
                   i, lead, subject, body, ret, attempted, template, out>>

\* msg = build_message(...); in dry-run the lead is done here; an error is
\* caught by the except clause
Build ==
    /\ pc = "build"
    /\ \E ok \in BOOLEAN :
          LET lg == Append(log, Ev("build", i, ok))
          IN  IF ~ok
              THEN /\ failed' = failed + 1
                   /\ report' = Append(report, "FAILED")
                   /\ log' = after_lead(lg)
                   /\ pc' = "loop"
                   /\ UNCHANGED sent
              ELSE IF cfg.dry_run
              THEN /\ sent' = sent + 1
                   /\ report' = Append(report, "DRY_RUN")
                   /\ log' = after_lead(lg)
                   /\ pc' = "loop"
                   /\ UNCHANGED failed
              ELSE /\ log' = lg
                   /\ pc' = "send"
                   /\ UNCHANGED <<sent, failed, report>>
    /\ UNCHANGED <<cfg, csv, subject_tmpl, body_tmpl, loaded, leads, printed_loaded, server,
                   i, lead, subject, body, exc, ret, attempted, template, out>>

\* server.send_message(msg); print("OK"); sent += 1, or the except clause
Send ==
    /\ pc = "send"
    /\ \E ok \in BOOLEAN :
          /\ log' = after_lead(Append(log, Ev("send", i, ok)))
          /\ IF ok
             THEN /\ sent' = sent + 1
                  /\ report' = Append(report, "OK")
                  /\ UNCHANGED failed
             ELSE /\ failed' = failed + 1
                  /\ report' = Append(report, "FAILED")
                  /\ UNCHANGED sent
    /\ pc' = "loop"
    /\ UNCHANGED <<cfg, csv, subject_tmpl, body_tmpl, loaded, leads, printed_loaded, server,
                   i, lead, subject, body, exc, ret, attempted, template, out>>

\* quit after the loop instead of in a finally clause: skipped on an error exit
FinallyQuitAfterLoop ==
    /\ pc = "finally"
    /\ IF server # "None" /\ exc = "none"
       THEN \E ok \in BOOLEAN : log' = Append(log, Ev("quit", 0, ok))
       ELSE UNCHANGED log
    /\ IF exc # "none"
       THEN pc' = "raised" /\ UNCHANGED ret
       ELSE pc' = "done" /\ ret' = status(failed)
    /\ UNCHANGED <<cfg, csv, subject_tmpl, body_tmpl, loaded, leads, printed_loaded, sent,
                   failed, server, i, lead, subject, body, exc, report, attempted,
                   template, out>>

\* finally: server.quit() with its error passed over; then the exception goes
\* on, or the "Done." line is printed and the status returned
Finally ==
    /\ pc = "finally"
    /\ IF server # "None"
       THEN \E ok \in BOOLEAN : log' = Append(log, Ev("quit", 0, ok))
       ELSE UNCHANGED log
    /\ IF exc # "none"
       THEN pc' = "raised" /\ UNCHANGED ret
       ELSE pc' = "done" /\ ret' = status(failed)
    /\ UNCHANGED <<cfg, csv, subject_tmpl, body_tmpl, loaded, leads, printed_loaded, sent,
                   failed, server, i, lead, subject, body, exc, report, attempted,
                   template, out>>

\* a call of render on its own
RenderCall ==
    /\ pc = "render"
    /\ out' = render(template, lead)
    /\ pc' = "rendered"
    /\ UNCHANGED <<cfg, csv, subject_tmpl, body_tmpl, loaded, leads, printed_loaded, sent,
                   failed, server, i, lead, subject, body, exc, ret, log, report,
                   attempted, template>>

(***************************************************************************)
(* Inputs.                                                                 *)
(***************************************************************************)
SeqsUpTo(S, n) == UNION {[1..m -> S] : m \in 0..n}

RECURSIVE concat(_)
concat(ss) == IF ss = <<>> THEN <<>> ELSE Head(ss) \o concat(Tail(ss))

k_other == <<"o","t","h","e","r">>

\* Config values a run is given (RATE_LIMIT_SECONDS in whole seconds)
Configs ==
    [dry_run : BOOLEAN, use_starttls : BOOLEAN,
     rate_limit_seconds : -1..1, max_emails : -1..MaxCap]

hdr_plain == <<k_company, k_name, k_email>>
hdr_mixed == <<<<"C","o","m","p","a","n","y">>, <<" ","N","A","M","E">>,
               <<"e","M","a","i","l"," ">>>>
hdr_no_email == <<k_company, k_name>>
hdr_twice == <<k_company, k_name, k_email, <<"E","m","a","i","l">>>>

row_ann == <<<<"A">>, <<"A","n","n">>, <<"a","@","x">>>>
row_bo == <<<<" ","B">>, <<"B","o"," ">>, <<" ","b","@","x"," ">>>>
row_blank == <<<<"C">>, <<"C","y">>, <<" ">>>>
row_short == <<<<"D">>, <<"D","i">>>>
row_long == <<<<"E">>, <<"E","d">>, <<"e","@","x">>, <<"x">>>>

\* lead files read on their own
CsvFiles ==
    {<<>>} \cup
    {<<h>> \o rows :
        h \in {hdr_plain, hdr_mixed, hdr_no_email, hdr_twice, <<>>},
        rows \in SeqsUpTo({row_ann, row_bo, row_blank, row_short, row_long, <<>>},
                          MaxRows)}

\* lead files of a whole run
RunFiles ==
    {<<hdr_plain>> \o rows : rows \in SeqsUpTo({row_ann, row_bo}, MaxLeads)}
    \cup {<<hdr_no_email, row_ann>>, <<hdr_plain, row_ann, row_long>>,
          <<hdr_mixed, row_blank, row_ann, <<>>, row_short, row_bo>>}

\* the template of a whole run: "Subject: Hi {{name}}" and "{{company}} {{email}}"
SubjectTemplate == <<"H","i"," ">> \o token(k_name)
BodyTemplate == token(k_company) \o <<" ">> \o token(k_email)

\* templates given to render on its own
Pieces ==
    {token(k_company), token(k_name), token(k_email), token(k_other),
     <<"H","i"," ">>, <<"{","{","n","a">>, <<"m","e","}","}">>}

Templates == {concat(ps) : ps \in SeqsUpTo(Pieces, MaxPieces)}

Values == {<<>>, <<"B","o">>, token(k_name)}

RenderLeads ==
    {<<<<k_company, c>>, <<k_name, n>>, <<k_email, e>>>> : c \in Values, n \in Values,
                                                         e \in Values}
    \cup {<<<<k_email, e>>>> : e \in Values}

(***************************************************************************)
(* Specifications.                                                         *)
(***************************************************************************)
Idle ==
    /\ subject_tmpl = SubjectTemplate
    /\ body_tmpl = BodyTemplate
    /\ leads = <<>>
    /\ loaded = <<>>
    /\ printed_loaded = -1
    /\ sent = 0
    /\ failed = 0
    /\ server = "None"
    /\ i = 0
    /\ subject = <<>>
    /\ body = <<>>
    /\ exc = "none"
    /\ ret = -1
    /\ log = <<>>
    /\ report = <<>>
    /\ attempted = <<>>
    /\ out = <<>>

\* a run of send_all
Init ==
    /\ cfg \in Configs
    /\ csv \in RunFiles
    /\ pc = "start"
    /\ lead = <<>>
    /\ template = <<>>
    /\ Idle

Next ==
    \/ LoadInputs
    \/ CapAndPrint
    \/ Connect
    \/ Ehlo
    \/ StartTls
    \/ Ehlo2
    \/ Login
    \/ LoopHead
    \/ Build
    \/ Send
    \/ Finally

Spec == Init /\ [][Next]_vars

\* read_leads_csv applied to a lead file
InitCsv ==
    /\ cfg = [dry_run |-> TRUE, use_starttls |-> TRUE, rate_limit_seconds |-> 1,
              max_emails |-> 0]
    /\ csv \in CsvFiles
    /\ pc = "start"
    /\ lead = <<>>
    /\ template = <<>>
    /\ Idle

NextCsv == LoadInputs

SpecCsv == InitCsv /\ [][NextCsv]_vars

\* render applied to a template and a lead
InitRender ==
    /\ cfg = [dry_run |-> TRUE, use_starttls |-> TRUE, rate_limit_seconds |-> 1,
              max_emails |-> 0]
    /\ csv = <<>>
    /\ pc = "render"
    /\ lead \in RenderLeads
    /\ template \in Templates
    /\ Idle

NextRender == RenderCall

SpecRender == InitRender /\ [][NextRender]_vars

(***************************************************************************)
(* Properties.                                                             *)
(***************************************************************************)
\* the "Loaded ..." line has been printed: the run is past the cap
Capped == printed_loaded # -1

\* leads whose iteration is over
Processed == IF pc \in {"build", "send"} THEN i - 1 ELSE i

Positions(op) == {k \in 1..Len(log) : log[k].op = op}

LeadErrors == {k \in 1..Len(log) : log[k].op \in {"build", "send"} /\ ~log[k].ok}

HandshakeErrors ==
    {k \in 1..Len(log) : log[k].op \in {"connect", "ehlo", "starttls", "login"}
                         /\ ~log[k].ok}

Count(seq, S) == Cardinality({k \in 1..Len(seq) : seq[k] \in S})

IsBuild(e) == e.op = "build"

\* C1: an error of build_message or send_message for one lead is caught and
\* adds 1 to failed; it never leaves send_all and never ends the loop: a run
\* that got into the loop ends with every lead of the list attempted and
\* reported, and with exactly one erring lead failed = 1 and the status is 2.
C1_LeadErrorCaught ==
    /\ failed = Cardinality(LeadErrors)
    /\ LeadErrors # {} => exc = "none" /\ pc # "raised"
    /\ pc = "done" =>
          /\ attempted = leads
          /\ Len(report) = Len(leads)
          /\ {log[k].i : k \in Positions("build")} = 1..Len(leads)
          /\ Cardinality(LeadErrors) = 1 => failed = 1 /\ ret = 2

C1_Witness ==
    /\ pc = "done"
    /\ ~cfg.dry_run
    /\ Len(leads) = 3
    /\ Cardinality(LeadErrors) = 1
    /\ report[1] = "FAILED"
    /\ ret = 2

\* C2: with a cap N > 0 and M > N leads read, the "Loaded" line reports M.
C2_LoadedIsOriginalCount ==
    (Capped /\ cfg.max_emails > 0 /\ Len(loaded) > cfg.max_emails)
        => printed_loaded = Len(loaded)

C4_ConnectionErrorFatal ==
    (~cfg.dry_run /\ HandshakeErrors # {}) =>
        /\ pc \in {"finally", "raised"}
        /\ exc \in {"OSError", "SMTPException"}
        /\ i = 0
        /\ attempted = <<>>
        /\ report = <<>>
        /\ Positions("build") = {} /\ Positions("send") = {}
        /\ sent = 0 /\ failed = 0
        /\ ret = -1

C4_Witness ==
    /\ pc = "raised"
    /\ cfg.use_starttls
    /\ Len(leads) >= 2
    /\ \E k \in HandshakeErrors : log[k].op = "login"
    /\ sent = 0 /\ failed = 0

\* C5: once the connection handle exists, quit is attempted exactly once, as
\* the last operation, on the normal and on the error exit, and never sooner;
\* an error of quit is passed over: the counts stay those of the progress
\* reports, a normal exit stays normal with its status, and an error exit
\* keeps its own exception.
C5_QuitOnceErrorsSuppressed ==
    /\ pc \in {"done", "raised"} /\ server = "SMTP" =>
          /\ Cardinality(Positions("quit")) = 1
          /\ log[Len(log)].op = "quit"
    /\ pc \notin {"done", "raised"} \/ server = "None" => Positions("quit") = {}
    /\ pc = "done" =>
          /\ exc = "none"
          /\ sent = Count(report, {"OK", "DRY_RUN"})
          /\ failed = Count(report, {"FAILED"})
          /\ ret = (IF Count(report, {"FAILED"}) = 0 THEN 0 ELSE 2)
    /\ pc = "raised" /\ server = "SMTP" => exc = "SMTPException" /\ ret = -1

C5_Witness ==
    /\ pc = "done"
    /\ server = "SMTP"
    /\ ~log[Len(log)].ok
    /\ sent >= 1
    /\ failed >= 1

\* C6: the loop works on the first N leads read when the cap N > 0 allows
\* fewer than all, else on all of them; it starts on them one by one in file
\* order, each once, equal leads included, and a finished run has attempted
\* exactly that list.
C6_AttemptsWorkingListInOrder ==
    Capped =>
        /\ leads = (IF cfg.max_emails > 0 /\ cfg.max_emails < Len(loaded)
                    THEN SubSeq(loaded, 1, cfg.max_emails)
                    ELSE loaded)
        /\ attempted = SubSeq(leads, 1, i)
        /\ LET builds == SelectSeq(log, IsBuild)
           IN  /\ Len(builds) = (IF pc = "build" THEN i - 1 ELSE i)
               /\ \A k \in 1..Len(builds) : builds[k].i = k
        /\ pc = "done" => attempted = leads

C6_Witness ==
    /\ pc = "done"
    /\ cfg.max_emails = 2
    /\ Len(loaded) = 3
    /\ Len(attempted) = 2
    /\ attempted[1] = attempted[2]

\* C7: sent + failed is the number of leads processed, each lead adding 1 to
\* exactly one counter; at the return sent = attempted - failed, and the
\* status is 0 exactly when failed = 0, else 2.
C7_CountersAndStatus ==
    /\ sent + failed = Processed
    /\ Len(report) = Processed
    /\ sent = Count(report, {"OK", "DRY_RUN"})
    /\ failed = Count(report, {"FAILED"})
    /\ pc = "done" =>
          /\ sent = Len(leads) - failed
          /\ ret \in {0, 2}
          /\ ret = 0 <=> failed = 0

C7_Witness ==
    /\ pc = "done"
    /\ sent = 2
    /\ failed = 1
    /\ ret = 2

\* C8: with a delay > 0 there is exactly one sleep after each processed lead
\* but the last of the list, right after that lead's outcome and before the
\* next lead's build, whatever the outcome and also in dry-run mode: n - 1
\* sleeps in a finished run of n > 0 leads; with a delay <= 0 none.
C8_SleepBetweenLeads ==
    /\ cfg.rate_limit_seconds <= 0 => Positions("sleep") = {}
    /\ cfg.rate_limit_seconds > 0 =>
          \A n \in 1..Processed :
              Cardinality({k \in Positions("sleep") : log[k].i = n})
                  = (IF n < Len(leads) THEN 1 ELSE 0)
    /\ \A k \in Positions("sleep") :
          /\ k > 1
          /\ log[k - 1].op \in {"build", "send"}
          /\ log[k - 1].i = log[k].i
          /\ log[k].i <= Processed
          /\ k < Len(log) => log[k + 1].op = "build" /\ log[k + 1].i = log[k].i + 1
    /\ (pc = "done" /\ cfg.rate_limit_seconds > 0) =>
          Cardinality(Positions("sleep")) = (IF Len(leads) = 0 THEN 0 ELSE Len(leads) - 1)

C8_Witness ==
    /\ pc = "done"
    /\ cfg.dry_run
    /\ cfg.rate_limit_seconds > 0
    /\ Len(leads) = 3
    /\ failed = 1
    /\ Cardinality(Positions("sleep")) = 2

\* the template with each placeholder token it holds replaced by the lead's
\* value, everything else kept: one pass over the template
RECURSIVE substitute(_, _)
substitute(t, ld) ==
    IF t = <<>> THEN <<>>
    ELSE LET hits == {n \in 1..Len(PLACEHOLDERS) :
                         /\ Len(t) >= Len(token(PLACEHOLDERS[n]))
                         /\ SubSeq(t, 1, Len(token(PLACEHOLDERS[n]))) = token(PLACEHOLDERS[n])}
         IN  IF hits = {} THEN <<Head(t)>> \o substitute(Tail(t), ld)
             ELSE LET n == CHOOSE n \in hits : TRUE
                  IN  dict_get(ld, PLACEHOLDERS[n], <<>>)
                          \o substitute(SubSeq(t, Len(token(PLACEHOLDERS[n])) + 1, Len(t)), ld)

\* C9: render returns the template with every {{company}}, {{name}} and
\* {{email}} present in the template replaced by the lead's value (empty when
\* the key is absent) and all other text left as it is.
C9_RenderReplacesTemplateTokens ==
    pc = "rendered" => out = substitute(template, lead)

\* the lead a data row stands for: each normalized header with the row's
\* trimmed cell, empty where the row has none
RECURSIVE row_lead(_, _, _, _)
row_lead(d, fieldnames, row, j) ==
    IF j > Len(fieldnames) THEN d
    ELSE row_lead(dict_set(d, norm_key(fieldnames[j]),
                           IF j <= Len(row) THEN strip(row[j]) ELSE <<>>),
                  fieldnames, row, j + 1)

HasEmail(ld) == dict_get(ld, k_email, <<>>) # <<>>

RowLeads(file) ==
    SelectSeq([j \in 1..(Len(file) - 1) |-> row_lead(<<>>, file[1], file[j + 1], 1)],
              HasEmail)

\* C10: for a lead file whose normalized headers include company, name and
\* email, read_leads_csv returns exactly the data rows with a non-empty
\* trimmed email, in file order, keys lowercased and values trimmed, with no
\* error; a file lacking a required header raises the format error.
C10_ReturnsRowsWithEmail ==
    pc # "start" =>
        IF headers_ok(csv)
        THEN pc = "cap" /\ exc = "none" /\ leads = RowLeads(csv)
        ELSE pc = "raised" /\ exc = "ValueError" /\ leads = <<>>

====
